---- MODULE Spec2Model ----
(***************************************************************************)
(* Model of scripts/generate_digest.py: the weekly marketing digest        *)
(* pipeline.  main() runs four phases in order: the RSS collector, the     *)
(* Perplexity insight fetch, the Claude generation, and the publisher      *)
(* (dated page, archive index, marker block of the top-level index.html).  *)
(*                                                                         *)
(* Text is modelled at the granularity the code inspects it:               *)
(*   - a file name is a sequence of one-character strings, so that the     *)
(*     glob, the sort and strptime work on characters;                     *)
(*   - the top-level page is a sequence of tokens, the two marker comments *)
(*     being tokens of their own (no marker is a substring of the other    *)
(*     or overlaps it, so str.find on the page is a search for a token);   *)
(*   - time is counted in hours.                                           *)
(***************************************************************************)
EXTENDS Integers, Sequences, FiniteSets, TLC

VARIABLES
    ANTHROPIC_API_KEY,   \* TRUE iff the environment sets a non-empty key
    PERPLEXITY_API_KEY,  \* TRUE iff the environment sets a non-empty key
    tz,                  \* UTC offset of the process's local time zone, hours
    pc,                  \* position of main()
    today,               \* datetime.now() of main(): [year, month, day]
    feeds,               \* what feedparser.parse delivered, per source
    articles,            \* list returned by fetch_rss_articles
    perplexity_text,     \* value returned by fetch_perplexity_insights
    digest_html,         \* value returned by generate_digest_html
    digests,             \* list returned by rebuild_index_page
    files,               \* DIGEST_DIR: file name -> content
    mainIndex,           \* MAIN_INDEX: NoFile or the page's tokens
    exitCode,            \* <<>> while running, <<code>> once exited
    calls,               \* external calls and writes of this run, in order
    insight,             \* outcome of the search request of this run
    generation,          \* outcome of the generation request of this run
    files0,              \* DIGEST_DIR when the run started
    mainIndex0,          \* MAIN_INDEX when the run started
    orphans,             \* dated pages written by runs that crashed
    rerun,               \* this run follows a completed run of the same date
    runs                 \* number of runs started

vars == <<ANTHROPIC_API_KEY, PERPLEXITY_API_KEY, tz, pc, today, feeds, articles,
          perplexity_text, digest_html, digests, files, mainIndex, exitCode,
          calls, insight, generation, files0, mainIndex0, orphans, rerun, runs>>

(***************************************************************************)
(* Bounds of the model.                                                    *)
(***************************************************************************)
MaxFiles == 3      \* files in DIGEST_DIR before the first run
MaxPageLen == 3    \* tokens of the top-level page before the first run
MaxEntries == 2    \* entries delivered by all feeds of one run together
MaxRuns == 2       \* runs of main()
Now == 1000        \* datetime.now() of fetch_rss_articles, in hours

(***************************************************************************)
(* Characters and strings.                                                 *)
(***************************************************************************)
Digits == <<"0", "1", "2", "3", "4", "5", "6", "7", "8", "9">>
Letters == <<"a", "b", "c", "d", "e", "f", "g", "h", "i", "j", "k", "l", "m",
             "n", "o", "p", "q", "r", "s", "t", "u", "v", "w", "x", "y", "z">>

IndexOf(c, seq) == CHOOSE i \in 1..Len(seq) : seq[i] = c
InSeq(c, seq) == \E i \in 1..Len(seq) : seq[i] = c
IsDigit(c) == InSeq(c, Digits)
DigitVal(c) == IndexOf(c, Digits) - 1

\* Code point of a character: what str comparison compares.
Ord(c) ==
    CASE c = " " -> 32
      [] c = "-" -> 45
      [] c = "." -> 46
      [] IsDigit(c) -> 48 + DigitVal(c)
      [] c = "_" -> 95
      [] OTHER -> 96 + IndexOf(c, Letters)

\* a < b for two strings (Python's str.__lt__).
RECURSIVE StrLess(_, _)
StrLess(a, b) ==
    IF b = <<>> THEN FALSE
    ELSE IF a = <<>> THEN TRUE
    ELSE IF Ord(Head(a)) # Ord(Head(b)) THEN Ord(Head(a)) < Ord(Head(b))
    ELSE StrLess(Tail(a), Tail(b))

\* Faulty variant of SortedReverse: ascending order.
RECURSIVE SortedReverse_NoReverse(_)
SortedReverse_NoReverse(S) ==
    IF S = {} THEN <<>>
    ELSE LET m == CHOOSE x \in S : \A y \in S : ~StrLess(y, x)
         IN  <<m>> \o SortedReverse_NoReverse(S \ {m})

\* sorted(S, reverse=True)
RECURSIVE SortedReverse(_)
SortedReverse(S) ==
    IF S = {} THEN <<>>
    ELSE LET m == CHOOSE x \in S : \A y \in S : ~StrLess(x, y)
         IN  <<m>> \o SortedReverse(S \ {m})

Take(s, n) == SubSeq(s, 1, IF Len(s) < n THEN Len(s) ELSE n)

(***************************************************************************)
(* Dates.                                                                  *)
(***************************************************************************)
\* The month names, written without their diacritics.
CZECH_MONTHS == <<"ledna", "unora", "brezna", "dubna", "kvetna", "cervna",
                  "cervence", "srpna", "zari", "rijna", "listopadu", "prosince">>

Date(y, m, d) == [year |-> y, month |-> m, day |-> d]

\* str(n): decimal digits, no padding.
RECURSIVE Decimal(_)
Decimal(n) == IF n < 10 THEN <<Digits[n + 1]>>
              ELSE Decimal(n \div 10) \o <<Digits[(n % 10) + 1]>>

Pad2(n) == <<Digits[(n \div 10) + 1], Digits[(n % 10) + 1]>>
Pad4(n) == Pad2(n \div 100) \o Pad2(n % 100)

\* dt.strftime("%Y-%m-%d")
Strftime(dt) == Pad4(dt.year) \o <<"-">> \o Pad2(dt.month) \o <<"-">> \o Pad2(dt.day)

format_date_czech(dt) ==
    Decimal(dt.day) \o <<".", " ", CZECH_MONTHS[dt.month], " ">> \o Decimal(dt.year)

IsLeap(y) == (y % 4 = 0 /\ y % 100 # 0) \/ y % 400 = 0
DaysInMonth(y, m) ==
    IF m = 2 THEN (IF IsLeap(y) THEN 29 ELSE 28)
    ELSE IF m \in {4, 6, 9, 11} THEN 30 ELSE 31

Num2(a, b) == 10 * DigitVal(a) + DigitVal(b)

\* datetime.strptime(s, "%Y-%m-%d"): [ok |-> FALSE] stands for ValueError.
Strptime(s) ==
    IF /\ Len(s) = 10
       /\ \A i \in {1, 2, 3, 4, 6, 7, 9, 10} : IsDigit(s[i])
       /\ s[5] = "-" /\ s[8] = "-"
    THEN LET y == 100 * Num2(s[1], s[2]) + Num2(s[3], s[4])
             m == Num2(s[6], s[7])
             d == Num2(s[9], s[10])
         IN  IF y >= 1 /\ m \in 1..12 /\ d >= 1 /\ d <= DaysInMonth(y, m)
             THEN [ok |-> TRUE, dt |-> Date(y, m, d)]
             ELSE [ok |-> FALSE, dt |-> Date(0, 0, 0)]
    ELSE [ok |-> FALSE, dt |-> Date(0, 0, 0)]

(***************************************************************************)
(* File names of DIGEST_DIR.                                               *)
(***************************************************************************)
DotHtml == <<".", "h", "t", "m", "l">>
IndexName == <<"i", "n", "d", "e", "x">> \o DotHtml
DatePattern == <<"?", "?", "?", "?", "-", "?", "?", "-", "?", "?">> \o DotHtml
AnyHtmlPattern == <<"*">> \o DotHtml

\* fnmatch of a name against a pattern of literals, "?" and a leading "*".
RECURSIVE GlobMatch(_, _)
GlobMatch(name, pattern) ==
    IF pattern = <<>> THEN name = <<>>
    ELSE IF Head(pattern) = "*"
         THEN \E k \in 0..Len(name) :
                  GlobMatch(SubSeq(name, k + 1, Len(name)), Tail(pattern))
    ELSE /\ name # <<>>
         /\ Head(pattern) = "?" \/ Head(pattern) = Head(name)
         /\ GlobMatch(Tail(name), Tail(pattern))

\* f.stem: the name without its last suffix.
Stem(name) ==
    LET dots == {i \in 2..Len(name) : name[i] = "."}
    IN  IF dots = {} THEN name
        ELSE SubSeq(name, 1, (CHOOSE i \in dots : \A j \in dots : j <= i) - 1)

(***************************************************************************)
(* Phase D: the publisher.                                                 *)
(***************************************************************************)
NoFile == <<[t |-> "no such file", items |-> <<>>]>>

Tok(text) == [t |-> text, items |-> <<>>]
start_marker == Tok("<!-- DIGEST_LIST_START -->")
end_marker == Tok("<!-- DIGEST_LIST_END -->")

\* The <div class="digest-list"> of digest-item links, one per digest.
ItemsHtml(prefix, ds) ==
    [t |-> "digest-list",
     items |-> [i \in 1..Len(ds) |->
                   [href |-> prefix \o ds[i].filename,
                    date |-> ds[i].date_display]]]
ComingSoon(message) == Tok(message)

\* The page written for one date: the template around date_display and content_html.
DigestPage(date_display, content_html) ==
    [kind |-> "digest", date_display |-> date_display, body |-> content_html]
\* The archive page: the template around list_html.
ArchivePage(list_html) == [kind |-> "archive", list_html |-> list_html]

\* Path.write_text: creates the file or replaces its content.
WriteText(dir, name, content) ==
    [n \in (DOMAIN dir) \cup {name} |-> IF n = name THEN content ELSE dir[n]]

build_digest_page(dir, date_str, date_display, content_html) ==
    WriteText(dir, date_str \o DotHtml, DigestPage(date_display, content_html))

\* DIGEST_DIR.glob(pattern)
Glob(dir, pattern) == {n \in DOMAIN dir : GlobMatch(n, pattern)}

\* Faulty variant of DigestFiles: every .html file of the directory.
DigestFiles_AnyHtml(dir) == SortedReverse(Glob(dir, AnyHtmlPattern))

\* Faulty variant of DigestFiles: ascending order.
DigestFiles_Ascending(dir) == SortedReverse_NoReverse(Glob(dir, DatePattern))

\* digest_files of rebuild_index_page
DigestFiles(dir) == SortedReverse(Glob(dir, DatePattern))

DigestRecord(name) ==
    LET date_str == Stem(name)
        parsed == Strptime(date_str)
    IN  [filename |-> name,
         date_str |-> date_str,
         date_display |-> IF parsed.ok THEN format_date_czech(parsed.dt)
                          ELSE date_str]

\* The list rebuild_index_page returns.
Digests(dir) ==
    LET digest_files == DigestFiles(dir)
    IN  [i \in 1..Len(digest_files) |-> DigestRecord(digest_files[i])]

\* rebuild_index_page: the directory after the archive index is written.
rebuild_index_page(dir) ==
    LET ds == Digests(dir)
        list_html == IF ds # <<>> THEN ItemsHtml(<<>>, ds)
                     ELSE ComingSoon("Zatim zadne digesty")
    IN  WriteText(dir, IndexName, ArchivePage(list_html))

\* content.find(marker): the first position, 0 when absent (Python's -1).
Find(content, marker) ==
    IF \E i \in 1..Len(content) : content[i] = marker
    THEN CHOOSE i \in 1..Len(content) :
             content[i] = marker /\ \A j \in 1..(i - 1) : content[j] # marker
    ELSE 0

MarketingDigestDir == <<"m", "a", "r", "k", "e", "t", "i", "n", "g", "-",
                        "d", "i", "g", "e", "s", "t", "/">>

\* Faulty variant of Recent: no cap on the number of digests.
Recent_All(ds) == ds

\* recent = digests[:3]
Recent(ds) == Take(ds, 3)

NewBlock(ds) ==
    LET recent == Recent(ds)
    IN  <<start_marker,
          IF recent # <<>> THEN ItemsHtml(MarketingDigestDir, recent)
          ELSE ComingSoon("Prvni digest vychazi brzy"),
          end_marker>>

\* MAIN_INDEX exists and holds both markers: update_main_index writes it.
MarkersFound(content) ==
    content # NoFile /\ Find(content, start_marker) # 0 /\ Find(content, end_marker) # 0

\* update_main_index: the content of MAIN_INDEX afterwards.
update_main_index(content, ds) ==
    LET start_idx == Find(content, start_marker)
        end_idx == Find(content, end_marker)
    IN  IF content = NoFile THEN content
        ELSE IF start_idx = 0 \/ end_idx = 0 THEN content
        ELSE SubSeq(content, 1, start_idx - 1) \o NewBlock(ds)
                 \o SubSeq(content, end_idx + 1, Len(content))

(***************************************************************************)
(* Phase A: the RSS collector.                                             *)
(*                                                                         *)
(* A feed entry carries published_parsed and updated_parsed, each absent,  *)
(* a UTC clock reading (hours), or a reading time.mktime rejects; `raises` *)
(* marks an entry whose title or summary makes the loop body raise.        *)
(***************************************************************************)
FEEDS == <<"https://www.adweek.com/feed/",
           "https://marketingland.com/feed",
           "https://www.businessoffashion.com/feed/",
           "http://feeds.harvardbusiness.org/harvardbusiness">>

Days == 7
Cutoff == Now - Days * 24

Absent == [k |-> "absent", t |-> 0]
Overflow == [k |-> "overflow", t |-> 0]
At(t) == [k |-> "time", t |-> t]

\* time.mktime(parsed): reads the tuple as local time, which is `zone` hours
\* ahead of UTC, and returns the seconds since the epoch (here: hours).
Mktime(t, zone) == t - zone

\* parse_entry_date: the first attribute that is set and converts, or Absent.
parse_entry_date(entry, zone) ==
    IF entry.published_parsed.k = "time"
    THEN At(Mktime(entry.published_parsed.t, zone))
    ELSE IF entry.updated_parsed.k = "time"
    THEN At(Mktime(entry.updated_parsed.t, zone))
    ELSE Absent

\* if pub_date and pub_date < cutoff: continue
Skipped(entry, zone) ==
    LET pub_date == parse_entry_date(entry, zone)
    IN  pub_date.k = "time" /\ pub_date.t < Cutoff

Article(entry, feed_url, zone) ==
    LET pub_date == parse_entry_date(entry, zone)
    IN  [link |-> entry.link,
         source |-> feed_url,
         date |-> IF pub_date.k = "time" THEN <<pub_date.t \div 24>> ELSE <<>>]

\* The loop over feed.entries: the articles appended before the loop ends or raises.
RECURSIVE Collected(_, _, _)
Collected(entries, feed_url, zone) ==
    IF entries = <<>> THEN <<>>
    ELSE IF Skipped(Head(entries), zone)
         THEN Collected(Tail(entries), feed_url, zone)
    ELSE IF Head(entries).raises THEN <<>>
    ELSE <<Article(Head(entries), feed_url, zone)>>
             \o Collected(Tail(entries), feed_url, zone)

\* Faulty variant of FeedBody: a failing source discards what was collected.
FeedBody_DropOnFailure(collected, feed_url, feed, zone) ==
    IF feed.parse_raises \/ \E i \in 1..Len(feed.entries) : feed.entries[i].raises
    THEN <<>>
    ELSE collected \o Collected(feed.entries, feed_url, zone)

\* The try block of one source: `collected` is the list so far.
FeedBody(collected, feed_url, feed, zone) ==
    IF feed.parse_raises THEN collected
    ELSE collected \o Collected(feed.entries, feed_url, zone)

\* fetch_rss_articles: the loop over FEEDS[i..], `net` being what each source delivers.
RECURSIVE FetchFrom(_, _, _, _)
FetchFrom(i, collected, net, zone) ==
    IF i > Len(FEEDS) THEN collected
    ELSE FetchFrom(i + 1, FeedBody(collected, FEEDS[i], net[i], zone), net, zone)

fetch_rss_articles(net, zone) == FetchFrom(1, <<>>, net, zone)

\* The feedparser.parse calls of fetch_rss_articles, in order.
FeedCalls == [i \in 1..Len(FEEDS) |-> FEEDS[i]]

(***************************************************************************)
(* Phase B: the insight fetch.  `response` is what the search API does     *)
(* when asked.                                                             *)
(***************************************************************************)
InsightResponses == {"network error", "timeout", "http error", "malformed json", "ok"}

\* Faulty variant of SearchRequests: a second attempt follows the first.
SearchRequests_Retry(key) == IF key THEN <<"search", "search">> ELSE <<>>

\* requests.post is reached only with a key.
SearchRequests(key) == IF key THEN <<"search">> ELSE <<>>

\* Faulty variant of fetch_perplexity_insights: a failed request propagates.
fetch_perplexity_insights_Raises(key, response) ==
    IF ~key THEN [raised |-> FALSE, value |-> ""]
    ELSE IF response = "ok" THEN [raised |-> FALSE, value |-> "insights"]
    ELSE [raised |-> TRUE, value |-> ""]

fetch_perplexity_insights(key, response) ==
    IF ~key THEN [raised |-> FALSE, value |-> ""]
    ELSE IF response = "ok" THEN [raised |-> FALSE, value |-> "insights"]
    ELSE [raised |-> FALSE, value |-> ""]

(***************************************************************************)
(* Phase C: the generation.  `response` is what the text-generation API    *)
(* does when asked.                                                        *)
(***************************************************************************)
GenerationResponses == {"api error", "no content block", "ok"}

\* client.messages.create is reached only with a key.
GenerationRequests(key) == IF key THEN <<"generate">> ELSE <<>>

\* Faulty variant of generate_digest_html: no check of the key, an empty body on failure.
generate_digest_html_NoCheck(key, arts, text, response) ==
    IF key /\ response = "ok" THEN [raised |-> FALSE, value |-> "html"]
    ELSE [raised |-> FALSE, value |-> ""]

generate_digest_html(key, arts, text, response) ==
    IF ~key THEN [raised |-> TRUE, value |-> ""]
    ELSE IF response = "ok" THEN [raised |-> FALSE, value |-> "html"]
    ELSE [raised |-> TRUE, value |-> ""]

(***************************************************************************)
(* main(): one action per phase.  An uncaught exception ends the process   *)
(* with exit status 1, as sys.exit(1) does.                                *)
(***************************************************************************)
DateLess(a, b) ==
    \/ a.year < b.year
    \/ a.year = b.year /\ a.month < b.month
    \/ a.year = b.year /\ a.month = b.month /\ a.day < b.day

\* The Mondays on which the scheduler starts main().
RunDays == {Date(2024, 1, 8), Date(2024, 1, 15)}

\* What the sources deliver in a run of main(): each fails or has one undated entry.
Undated(i) == [link |-> <<i, 1>>, published_parsed |-> Absent,
               updated_parsed |-> Absent, raises |-> FALSE]
MainNets ==
    {[i \in 1..Len(FEEDS) |->
         IF i \in failing THEN [parse_raises |-> TRUE, entries |-> <<>>]
         ELSE [parse_raises |-> FALSE, entries |-> <<Undated(i)>>]]
     : failing \in SUBSET (1..Len(FEEDS))}

Terminated == pc \in {"done", "exit", "crashed"}

\* The scheduler starts main(): today is read, the locals are fresh.
StartRun ==
    /\ pc = "idle" \/ Terminated
    /\ runs < MaxRuns
    /\ \E d \in RunDays : ~DateLess(d, today) /\ today' = d
    /\ pc' = "rss"
    /\ runs' = runs + 1
    /\ rerun' = (pc = "done" /\ today' = today)
    /\ files0' = files
    /\ mainIndex0' = mainIndex
    /\ feeds' = <<>>
    /\ articles' = <<>>
    /\ perplexity_text' = ""
    /\ digest_html' = ""
    /\ digests' = <<>>
    /\ exitCode' = <<>>
    /\ calls' = <<>>
    /\ insight' = ""
    /\ generation' = ""
    /\ UNCHANGED <<ANTHROPIC_API_KEY, PERPLEXITY_API_KEY, tz, files, mainIndex, orphans>>

\* A: articles = fetch_rss_articles(days=7)
FetchRssArticles(net) ==
    /\ pc = "rss"
    /\ feeds' = net
    /\ articles' = fetch_rss_articles(net, tz)
    /\ calls' = calls \o FeedCalls
    /\ pc' = "perplexity"
    /\ UNCHANGED <<ANTHROPIC_API_KEY, PERPLEXITY_API_KEY, tz, today, perplexity_text,
                   digest_html, digests, files, mainIndex, exitCode, insight,
                   generation, files0, mainIndex0, orphans, rerun, runs>>

\* B: perplexity_text = fetch_perplexity_insights()
FetchPerplexityInsights ==
    /\ pc = "perplexity"
    /\ \E response \in InsightResponses :
         LET r == fetch_perplexity_insights(PERPLEXITY_API_KEY, response)
         IN  /\ insight' = IF PERPLEXITY_API_KEY THEN response ELSE "no key"
             /\ calls' = calls \o SearchRequests(PERPLEXITY_API_KEY)
             /\ perplexity_text' = r.value
             /\ pc' = IF r.raised THEN "exit" ELSE "generate"
             /\ exitCode' = IF r.raised THEN <<1>> ELSE exitCode
    /\ UNCHANGED <<ANTHROPIC_API_KEY, PERPLEXITY_API_KEY, tz, today, feeds, articles,
                   digest_html, digests, files, mainIndex, generation, files0,
                   mainIndex0, orphans, rerun, runs>>

\* C: digest_html = generate_digest_html(...), sys.exit(1) on any exception
GenerateDigestHtml ==
    /\ pc = "generate"
    /\ \E response \in GenerationResponses :
         LET r == generate_digest_html(ANTHROPIC_API_KEY, articles,
                                       perplexity_text, response)
         IN  /\ generation' = IF ANTHROPIC_API_KEY THEN response ELSE "no key"
             /\ calls' = calls \o GenerationRequests(ANTHROPIC_API_KEY)
             /\ digest_html' = r.value
             /\ pc' = IF r.raised THEN "exit" ELSE "build"
             /\ exitCode' = IF r.raised THEN <<1>> ELSE exitCode
    /\ UNCHANGED <<ANTHROPIC_API_KEY, PERPLEXITY_API_KEY, tz, today, feeds, articles,
                   perplexity_text, digests, files, mainIndex, insight, files0,
                   mainIndex0, orphans, rerun, runs>>

\* D: build_digest_page(date_str, date_display, digest_html)
BuildDigestPage ==
    /\ pc = "build"
    /\ files' = build_digest_page(files, Strftime(today), format_date_czech(today),
                                  digest_html)
    /\ calls' = Append(calls, "write dated page")
    /\ pc' = "rebuild"
    /\ UNCHANGED <<ANTHROPIC_API_KEY, PERPLEXITY_API_KEY, tz, today, feeds, articles,
                   perplexity_text, digest_html, digests, mainIndex, exitCode,
                   insight, generation, files0, mainIndex0, orphans, rerun, runs>>

\* D: digests = rebuild_index_page()
RebuildIndexPage ==
    /\ pc = "rebuild"
    /\ digests' = Digests(files)
    /\ files' = rebuild_index_page(files)
    /\ calls' = Append(calls, "write archive index")
    /\ pc' = "update"
    /\ UNCHANGED <<ANTHROPIC_API_KEY, PERPLEXITY_API_KEY, tz, today, feeds, articles,
                   perplexity_text, digest_html, mainIndex, exitCode, insight,
                   generation, files0, mainIndex0, orphans, rerun, runs>>

\* D: update_main_index(digests), then main() returns
UpdateMainIndex ==
    /\ pc = "update"
    /\ mainIndex' = update_main_index(mainIndex, digests)
    /\ calls' = IF MarkersFound(mainIndex) THEN Append(calls, "write main index")
                ELSE calls
    /\ pc' = "done"
    /\ exitCode' = <<0>>
    /\ UNCHANGED <<ANTHROPIC_API_KEY, PERPLEXITY_API_KEY, tz, today, feeds, articles,
                   perplexity_text, digest_html, digests, files, insight, generation,
                   files0, mainIndex0, orphans, rerun, runs>>

\* The process is killed after the dated page is written and before the
\* publisher has finished.
Crash ==
    /\ pc \in {"rebuild", "update"}
    /\ pc' = "crashed"
    /\ orphans' = orphans \cup {Strftime(today) \o DotHtml}
    /\ UNCHANGED <<ANTHROPIC_API_KEY, PERPLEXITY_API_KEY, tz, today, feeds, articles,
                   perplexity_text, digest_html, digests, files, mainIndex, exitCode,
                   calls, insight, generation, files0, mainIndex0, rerun, runs>>

(***************************************************************************)
(* Initial states.                                                         *)
(***************************************************************************)
EmptyDir == [n \in {} |-> 0]

\* The digests of the weeks before the first run.
Weeks == <<Date(2023, 12, 11), Date(2023, 12, 18), Date(2023, 12, 25), Date(2024, 1, 1)>>

OldPage(dt) == DigestPage(format_date_czech(dt), "old html")

\* DIGEST_DIR after k weekly runs.
PublishedDir(k) ==
    LET dates == {Weeks[i] : i \in (Len(Weeks) - k + 1)..Len(Weeks)}
        names == {Strftime(dt) \o DotHtml : dt \in dates}
        pages == [n \in names |-> OldPage(Strptime(Stem(n)).dt)]
    IN  IF k = 0 THEN EmptyDir ELSE rebuild_index_page(pages)

MainDirs ==
    {PublishedDir(k) : k \in {0, IF MaxFiles < Len(Weeks) THEN MaxFiles ELSE Len(Weeks)}}

\* MAIN_INDEX: absent, without the markers, as the last run left it, or with
\* the end marker written before the start marker.
MainPages(dir) ==
    {NoFile, <<Tok("header")>>,
     <<Tok("header")>> \o NewBlock(Digests(dir)) \o <<Tok("footer")>>,
     <<end_marker, Tok("text"), start_marker>>}

Locals ==
    /\ feeds = <<>>
    /\ articles = <<>>
    /\ perplexity_text = ""
    /\ digests = <<>>
    /\ exitCode = <<>>
    /\ calls = <<>>
    /\ insight = ""
    /\ generation = ""
    /\ orphans = {}
    /\ rerun = FALSE

Init ==
    /\ ANTHROPIC_API_KEY \in BOOLEAN
    /\ PERPLEXITY_API_KEY \in BOOLEAN
    /\ tz = 0
    /\ pc = "idle"
    /\ today = Date(2024, 1, 8)
    /\ files \in MainDirs
    /\ mainIndex \in MainPages(files)
    /\ files0 = files
    /\ mainIndex0 = mainIndex
    /\ digest_html = ""
    /\ runs = 0
    /\ Locals

Next ==
    \/ StartRun
    \/ \E net \in MainNets : FetchRssArticles(net)
    \/ FetchPerplexityInsights
    \/ GenerateDigestHtml
    \/ BuildDigestPage
    \/ RebuildIndexPage
    \/ UpdateMainIndex
    \/ Crash

Spec == Init /\ [][Next]_vars

(***************************************************************************)
(* The collector alone: fetch_rss_articles on every delivery of at most    *)
(* MaxEntries entries, in every time zone of Zones.                        *)
(***************************************************************************)
Zones == {-1, 0, 1}

\* The (published_parsed, updated_parsed, raises) of the entries tried: readings
\* one hour before the cutoff, at the cutoff and one hour after it.
EntryKinds ==
    {<<At(Cutoff - 1), At(Cutoff + 1), FALSE>>, <<At(Cutoff), Absent, FALSE>>,
     <<Absent, Absent, FALSE>>, <<Absent, At(Cutoff - 1), FALSE>>,
     <<Overflow, At(Cutoff + 1), FALSE>>, <<Absent, Absent, TRUE>>}

Entry(i, k, kind) ==
    [link |-> <<i, k>>, published_parsed |-> kind[1], updated_parsed |-> kind[2],
     raises |-> kind[3]]

\* What source i can deliver within a budget of entries.
FeedResults(i, budget) ==
    {[parse_raises |-> TRUE, entries |-> <<>>]} \cup
    UNION {{[parse_raises |-> FALSE,
             entries |-> [k \in 1..n |-> Entry(i, k, kinds[k])]]
            : kinds \in [1..n -> EntryKinds]} : n \in 0..budget}

RECURSIVE NetsFrom(_, _)
NetsFrom(i, budget) ==
    IF i > Len(FEEDS) THEN {<<>>}
    ELSE UNION {{<<feed>> \o rest : rest \in NetsFrom(i + 1, budget - Len(feed.entries))}
                : feed \in FeedResults(i, budget)}

RssNets(budget) == NetsFrom(1, budget)

InitRss ==
    /\ ANTHROPIC_API_KEY = TRUE
    /\ PERPLEXITY_API_KEY = TRUE
    /\ tz \in Zones
    /\ pc = "rss"
    /\ today = Date(2024, 1, 8)
    /\ files = EmptyDir
    /\ mainIndex = NoFile
    /\ files0 = files
    /\ mainIndex0 = mainIndex
    /\ digest_html = ""
    /\ runs = 1
    /\ Locals

NextRss == pc = "rss" /\ \E net \in RssNets(MaxEntries) : FetchRssArticles(net)

SpecRss == InitRss /\ [][NextRss]_vars

(***************************************************************************)
(* The publisher alone: the three steps of phase D on every directory of   *)
(* at most MaxFiles files and every page of at most MaxPageLen tokens.     *)
(***************************************************************************)
Name(text) == text \o DotHtml
NameUniverse ==
    {Name(Strftime(Date(2023, 12, 25))), Name(Strftime(Date(2024, 1, 1))),
     Name(Strftime(Date(2024, 1, 8))), Name(Strftime(Date(2024, 1, 15))),
     Name(<<"n", "o", "t", "e", "-", "t", "o", "-", "m", "e">>),
     Name(<<"2", "0", "2", "4", "-", "0", "2", "-", "3", "0">>),
     Name(<<"2", "0", "2", "4", "-", "1", "-", "8">>),
     IndexName}

\* What a file found in DIGEST_DIR holds before the run.
InitialContent(n) ==
    IF n = IndexName THEN ArchivePage(ComingSoon("stale"))
    ELSE IF Strptime(Stem(n)).ok THEN OldPage(Strptime(Stem(n)).dt)
    ELSE [kind |-> "other"]

PubDirs ==
    {[n \in S |-> InitialContent(n)]
     : S \in {T \in SUBSET NameUniverse : Cardinality(T) <= MaxFiles}}

PageTokens == {start_marker, end_marker, Tok("text")}
PubPages == {NoFile} \cup UNION {[1..n -> PageTokens] : n \in 0..MaxPageLen}

InitPub ==
    /\ ANTHROPIC_API_KEY = TRUE
    /\ PERPLEXITY_API_KEY = TRUE
    /\ tz = 0
    /\ pc = "build"
    /\ today = Date(2024, 1, 8)
    /\ files \in PubDirs
    /\ mainIndex \in PubPages
    /\ files0 = files
    /\ mainIndex0 = mainIndex
    /\ digest_html = "html"
    /\ runs = 1
    /\ Locals

NextPub == BuildDigestPage \/ RebuildIndexPage \/ UpdateMainIndex

SpecPub == InitPub /\ [][NextPub]_vars

(***************************************************************************)
(* Vocabulary of the properties.                                           *)
(***************************************************************************)
ValidDates ==
    {dt \in [year : 2023..2024, month : 1..12, day : 1..31] :
         dt.day <= DaysInMonth(dt.year, dt.month)}

\* The names YYYY-MM-DD.html of the calendar dates of 2023 and 2024.
ValidDateNames == {Name(Strftime(dt)) : dt \in ValidDates}
IsDateName(n) == n \in ValidDateNames

RECURSIVE Number(_)
Number(ds) == IF ds = <<>> THEN 0
              ELSE 10 * Number(SubSeq(ds, 1, Len(ds) - 1)) + DigitVal(ds[Len(ds)])

\* The date a date name names.
DateOfName(n) ==
    Date(Number(SubSeq(n, 1, 4)), Number(SubSeq(n, 6, 7)), Number(SubSeq(n, 9, 10)))

\* Four characters, a dash, two, a dash, two, then ".html".
HasDateShape(n) ==
    /\ Len(n) = 15
    /\ n[5] = "-" /\ n[8] = "-"
    /\ SubSeq(n, 11, 15) = DotHtml

\* The file names the archive index of a directory links to, in page order.
Hrefs(block) == [i \in 1..Len(block.items) |-> block.items[i].href]
ArchiveListing(dir) ==
    IF IndexName \in DOMAIN dir THEN Hrefs(dir[IndexName].list_html) ELSE <<>>

Range(seq) == {seq[i] : i \in 1..Len(seq)}
NoDuplicates(seq) == \A i, j \in 1..Len(seq) : seq[i] = seq[j] => i = j

HasBothMarkers(page) ==
    page # NoFile /\ Find(page, start_marker) # 0 /\ Find(page, end_marker) # 0

\* What follows the first start marker of a page.
ExternalBlock(page) == page[Find(page, start_marker) + 1]
Before(page) == SubSeq(page, 1, Find(page, start_marker) - 1)
After(page) == SubSeq(page, Find(page, end_marker) + 1, Len(page))

DateDescending(names) ==
    \A i, j \in 1..Len(names) :
        i < j => DateLess(DateOfName(names[j]), DateOfName(names[i]))
NameDescending(names) ==
    \A i, j \in 1..Len(names) : i < j => StrLess(names[j], names[i])

Min(a, b) == IF a < b THEN a ELSE b
Count(seq, x) == Cardinality({i \in 1..Len(seq) : seq[i] = x})

GenerationFailed == generation \in {"no key", "api error", "no content block"}
PublisherReached == pc \in {"update", "done"}

(***************************************************************************)
(* C1.  When the generation phase fails (no ANTHROPIC_API_KEY, or the call *)
(* raises), main() exits with code 1 and DIGEST_DIR and MAIN_INDEX hold    *)
(* what they held when the run started, whatever the feeds and the insight *)
(* fetch did.                                                              *)
(***************************************************************************)
C1_NoOutputOnFatal ==
    GenerationFailed =>
        /\ pc = "exit"
        /\ exitCode = <<1>>
        /\ files = files0
        /\ mainIndex = mainIndex0

C1_Witness ==
    /\ pc = "exit"
    /\ generation = "api error"
    /\ insight = "ok"
    /\ articles # <<>>
    /\ files0 # EmptyDir
    /\ HasBothMarkers(mainIndex0)

(***************************************************************************)
(* C2.  A second run for the same date, after a completed one and with the *)
(* same generated body, leaves DIGEST_DIR and MAIN_INDEX as the first run  *)
(* left them.                                                              *)
(***************************************************************************)
C2_RerunIdempotent ==
    (pc = "done" /\ rerun) => (files = files0 /\ mainIndex = mainIndex0)

(***************************************************************************)
(* C3.  update_main_index leaves a page without both markers unchanged,    *)
(* and in a page with both markers it leaves the text before the start     *)
(* marker and the text after the end marker unchanged.                     *)
(***************************************************************************)
C3_OnlyBetweenMarkers ==
    pc = "done" =>
        IF HasBothMarkers(mainIndex0)
        THEN /\ HasBothMarkers(mainIndex)
             /\ Before(mainIndex) = Before(mainIndex0)
             /\ After(mainIndex) = After(mainIndex0)
        ELSE mainIndex = mainIndex0

(***************************************************************************)
(* C4.  When every date-shaped file of DIGEST_DIR is named by a valid      *)
(* date, the archive index lists these N files once each, most recent      *)
(* date first, and the block written into a page with both markers lists   *)
(* the first min(3, N) of them in the same order.                          *)
(***************************************************************************)
C4_ArchiveAndRecent ==
    LET dated == {n \in DOMAIN files : IsDateName(n)}
        listing == ArchiveListing(files)
        block == ExternalBlock(mainIndex)
    IN  (PublisherReached /\ \A n \in DOMAIN files : HasDateShape(n) => IsDateName(n)) =>
            /\ Range(listing) = dated
            /\ NoDuplicates(listing)
            /\ DateDescending(listing)
            /\ (pc = "done" /\ HasBothMarkers(mainIndex0)) =>
                   /\ block.t = "digest-list"
                   /\ Hrefs(block) =
                          [i \in 1..Min(3, Cardinality(dated)) |->
                              MarketingDigestDir \o listing[i]]

C4_Witness ==
    /\ pc = "done"
    /\ HasBothMarkers(mainIndex0)
    /\ \A n \in DOMAIN files : HasDateShape(n) => IsDateName(n)
    /\ Cardinality({n \in DOMAIN files : IsDateName(n)}) = 4
    /\ Len(ExternalBlock(mainIndex).items) = 3
    /\ Name(Strftime(today)) \notin DOMAIN files0
    /\ \E n \in DOMAIN files0 :
           IsDateName(n) /\ MarketingDigestDir \o n \notin Range(Hrefs(ExternalBlock(mainIndex)))

(***************************************************************************)
(* C5.  In a feed that is parsed and iterated without error, an entry      *)
(* whose publication time (the first of published_parsed, updated_parsed   *)
(* that is set and converts; both are UTC) is before the cutoff is left    *)
(* out, one whose publication time is at or after the cutoff is kept, and  *)
(* one without a publication time is kept with an empty date.              *)
(***************************************************************************)
PublicationTime(entry) ==
    IF entry.published_parsed.k = "time" THEN entry.published_parsed
    ELSE IF entry.updated_parsed.k = "time" THEN entry.updated_parsed
    ELSE Absent

Succeeded(feed) ==
    ~feed.parse_raises /\ \A k \in 1..Len(feed.entries) : ~feed.entries[k].raises

ArticlesOf(entry) == {i \in 1..Len(articles) : articles[i].link = entry.link}

C5_RecencyFilter ==
    pc = "perplexity" =>
        \A i \in 1..Len(feeds) : Succeeded(feeds[i]) =>
            \A k \in 1..Len(feeds[i].entries) :
                LET entry == feeds[i].entries[k]
                    published == PublicationTime(entry)
                IN  IF published.k = "time" /\ published.t < Cutoff
                    THEN ArticlesOf(entry) = {}
                    ELSE /\ Cardinality(ArticlesOf(entry)) = 1
                         /\ published.k # "time" =>
                                \A a \in ArticlesOf(entry) : articles[a].date = <<>>

(***************************************************************************)
(* C6.  Whatever sources fail, in parsing or while their entries are       *)
(* iterated, fetch_rss_articles returns: every source is asked, in list    *)
(* order; every entry of a source that succeeded and that passes the       *)
(* recency filter is in the result; and the result follows the order of    *)
(* the sources, so nothing collected earlier is lost to a later failure.   *)
(***************************************************************************)
SourceIndex(url) == CHOOSE i \in 1..Len(FEEDS) : FEEDS[i] = url

C6_PartialFailureTolerance ==
    pc = "perplexity" =>
        /\ calls = FeedCalls
        /\ \A i \in 1..Len(feeds) : Succeeded(feeds[i]) =>
               \A k \in 1..Len(feeds[i].entries) :
                   ~Skipped(feeds[i].entries[k], tz) =>
                       \E a \in ArticlesOf(feeds[i].entries[k]) :
                           articles[a].source = FEEDS[i]
        /\ \A a, b \in 1..Len(articles) :
               a < b => SourceIndex(articles[a].source) <= SourceIndex(articles[b].source)
        /\ \A a \in 1..Len(articles) :
               LET feed == feeds[SourceIndex(articles[a].source)]
               IN  ~feed.parse_raises /\ \E k \in 1..Len(feed.entries) :
                       feed.entries[k].link = articles[a].link

C6_Witness ==
    /\ pc = "perplexity"
    /\ Succeeded(feeds[1]) /\ feeds[1].entries # <<>>
    /\ feeds[2].parse_raises
    /\ feeds[3].parse_raises
    /\ Succeeded(feeds[4]) /\ feeds[4].entries # <<>>
    /\ Len(articles) = 2

(***************************************************************************)
(* C7.  Failures of the feeds and of the insight fetch do not end the run: *)
(* a failed or skipped insight fetch yields the empty string, the run goes *)
(* on to the generation, a successful generation leads to the outputs      *)
(* being written and to exit code 0, and exit code 1 is returned only      *)
(* when the generation fails.                                              *)
(***************************************************************************)
C7_NonFatalNeverAborts ==
    /\ (insight \notin {"", "ok"}) => perplexity_text = ""
    /\ (insight # "" /\ generation = "") => pc = "generate"
    /\ (pc = "exit" \/ exitCode = <<1>>) => GenerationFailed
    /\ generation = "ok" => pc \in {"build", "rebuild", "update", "done", "crashed"}
    /\ pc = "done" =>
           /\ exitCode = <<0>>
           /\ generation = "ok"
           /\ Name(Strftime(today)) \in DOMAIN files
           /\ files[Name(Strftime(today))].body = digest_html
           /\ IndexName \in DOMAIN files

C7_Witness ==
    /\ pc = "done"
    /\ exitCode = <<0>>
    /\ insight = "timeout"
    /\ \E i \in 1..Len(feeds) : feeds[i].parse_raises
    /\ \E i \in 1..Len(feeds) : ~feeds[i].parse_raises

(***************************************************************************)
(* C8, as stated.  In a run that has ended, every source was fetched once, *)
(* the search request was made once and the generation request was made    *)
(* once, whatever keys are configured.                                     *)
(***************************************************************************)
C8_ExactlyOnceAlways ==
    pc \in {"done", "exit"} =>
        /\ \A i \in 1..Len(FEEDS) : Count(calls, FEEDS[i]) = 1
        /\ Count(calls, "search") = 1
        /\ Count(calls, "generate") = 1

(***************************************************************************)
(* C8, amended.  No call is repeated and the order is fixed: the calls of  *)
(* a run are a prefix of: every source once, in list order; the search     *)
(* request, once, if PERPLEXITY_API_KEY is set; the generation request,    *)
(* once, if ANTHROPIC_API_KEY is set; the three writes.  A run that exits  *)
(* with code 1 made all of these but the writes; a run that completes made *)
(* them all, the last write being skipped when MAIN_INDEX is not patched.  *)
(***************************************************************************)
ExternalCalls ==
    FeedCalls \o (IF PERPLEXITY_API_KEY THEN <<"search">> ELSE <<>>)
              \o (IF ANTHROPIC_API_KEY THEN <<"generate">> ELSE <<>>)
Writes == <<"write dated page", "write archive index", "write main index">>
IsPrefix(a, b) == Len(a) <= Len(b) /\ a = SubSeq(b, 1, Len(a))

C8_OnceInOrder ==
    /\ IsPrefix(calls, ExternalCalls \o Writes)
    /\ pc = "exit" => calls = ExternalCalls
    /\ pc = "done" => IsPrefix(ExternalCalls \o Take(Writes, 2), calls)
    /\ pc \in {"generate", "build"} => IsPrefix(FeedCalls, calls)

C8_Witness ==
    /\ pc = "done"
    /\ ~PERPLEXITY_API_KEY
    /\ Count(calls, "search") = 0
    /\ Count(calls, "generate") = 1
    /\ Count(calls, "write main index") = 1

(***************************************************************************)
(* C9.  After a run that completes, the archive index lists exactly the    *)
(* dated files of DIGEST_DIR, those left by crashed runs included, and the *)
(* block of a page with both markers lists the three most recent of them.  *)
(***************************************************************************)
C9_SelfCorrecting ==
    LET dated == {n \in DOMAIN files : IsDateName(n)}
        listing == ArchiveListing(files)
        block == ExternalBlock(mainIndex)
    IN  pc = "done" =>
            /\ Range(listing) = dated
            /\ NoDuplicates(listing)
            /\ orphans \subseteq Range(listing)
            /\ HasBothMarkers(mainIndex0) =>
                   /\ Len(block.items) = Min(3, Cardinality(dated))
                   /\ \A i \in 1..Len(block.items) :
                          /\ block.items[i].href = MarketingDigestDir \o listing[i]
                          /\ \A n \in dated \ {listing[j] : j \in 1..i} :
                                 DateLess(DateOfName(n), DateOfName(listing[i]))

\* The run before crashed after writing its page, which the archive index did
\* not list when this run started; this run, of a later date, lists it.
C9_Witness ==
    /\ pc = "done"
    /\ HasBothMarkers(mainIndex0)
    /\ \E o \in orphans :
           /\ o # Name(Strftime(today))
           /\ o \in DOMAIN files0
           /\ o \notin Range(ArchiveListing(files0))
           /\ o \in Range(ArchiveListing(files))
           /\ MarketingDigestDir \o o \in Range(Hrefs(ExternalBlock(mainIndex)))
    /\ Cardinality(DOMAIN files) > 4

(***************************************************************************)
(* C10, as stated.  Every file the archive index lists, and every digest   *)
(* passed on to the patch of MAIN_INDEX, is named by a date.               *)
(***************************************************************************)
C10_OnlyDateNames ==
    PublisherReached =>
        /\ \A n \in Range(ArchiveListing(files)) : IsDateName(n)
        /\ \A i \in 1..Len(digests) : IsDateName(digests[i].filename)

(***************************************************************************)
(* C10, amended.  The files listed in the archive index and passed on to   *)
(* the patch are exactly those whose name has the shape ????-??-??.html,   *)
(* whatever the eight characters are: index.html and names of another      *)
(* shape are never listed.  They are listed in descending order of name,   *)
(* which is the descending order of date when all of them are named by a   *)
(* date.                                                                   *)
(***************************************************************************)
C10_DateShapedNames ==
    LET listing == ArchiveListing(files)
    IN  PublisherReached =>
            /\ Range(listing) = {n \in DOMAIN files : HasDateShape(n)}
            /\ IndexName \notin Range(listing)
            /\ listing = [i \in 1..Len(digests) |-> digests[i].filename]
            /\ NameDescending(listing)
            /\ (\A n \in Range(listing) : IsDateName(n)) => DateDescending(listing)

C10_Witness ==
    /\ pc = "done"
    /\ IndexName \in DOMAIN files0
    /\ Name(<<"2", "0", "2", "4", "-", "1", "-", "8">>) \in DOMAIN files
    /\ Name(<<"n", "o", "t", "e", "-", "t", "o", "-", "m", "e">>)
           \in Range(ArchiveListing(files))
    /\ Len(ArchiveListing(files)) = 2

====
